---- MODULE Spec2Model ----
(***************************************************************************)
(* Wire-protocol layer of the amethyst server: Packet::read                *)
(* (src/src/packets.rs) and the login handler net::login_handler::handle   *)
(* (src/src/net/login_handler.rs), one connection.                         *)
(*                                                                         *)
(* Bytes are naturals 0..255, byte strings are sequences of bytes.         *)
(* Option<T> is <<>> (None) or <<v>> (Some(v)); Result<T,E> is a record    *)
(* [ok |-> TRUE, val |-> v] or [ok |-> FALSE, err |-> e].                  *)
(***************************************************************************)
EXTENDS Integers, Sequences, FiniteSets, TLC

VARIABLES
    client,      \* PlayerLoginClient: state, verify_token, nickname, encode, decode, identifier, written
    packets,     \* the part of handle's `packets` argument the for loop has not yet consumed
    panicked,    \* TRUE once an unwrap() in handle has panicked
    handled,     \* number of loop iterations executed on this connection
    pending_dc,  \* the "TODO DC" branches of handle reached so far on this connection
    last,        \* what the latest loop iteration of handle did
    rd,          \* the latest stand-alone call of Packet::read: its arguments and result
    ser,         \* the latest stand-alone call of Packet::serialize: the packet and the result
    hx           \* the latest stand-alone call of hex_digest / two_complement

vars == <<client, packets, panicked, handled, pending_dc, last, rd, ser, hx>>

----------------------------------------------------------------------------
(* Bounds *)

MaxBatch == 2
MaxHandled == 4

----------------------------------------------------------------------------
(* Option and Result *)

None == <<>>
Some(v) == <<v>>
is_some(o) == o # <<>>
unwrap(o) == o[1]

Ok(v) == [ok |-> TRUE, val |-> v]
Err(e) == [ok |-> FALSE, err |-> e]

----------------------------------------------------------------------------
(* ConnectionState *)

Handshaking == "Handshaking"
Status == "Status"
Login == "Login"
Play == "Play"
ConnectionState == {Handshaking, Status, Login, Play}

----------------------------------------------------------------------------
(* DataReader: the primitive readers of the wire format.  Every reader    *)
(* takes the unread bytes and returns [ok, val, rest] or [ok, err].       *)

UnexpectedEof == "UnexpectedEof"
MalformedVarint == "MalformedVarint"

Take(s, n) == SubSeq(s, 1, n)
Drop(s, n) == SubSeq(s, n + 1, Len(s))

RdOk(v, rest) == [ok |-> TRUE, val |-> v, rest |-> rest]
RdErr(e) == [ok |-> FALSE, err |-> e]

Pow2(n) == 2 ^ n

\* varint: 7 data bits per byte, least significant group first, high bit =
\* continuation, at most 5 bytes, result is an i32.
RECURSIVE varint_from(_, _, _)
varint_from(data, k, acc) ==
    IF Len(data) < k THEN RdErr(MalformedVarint)
    ELSE LET b == data[k]
             low == b % 128
         IN  IF k = 5
             THEN IF b >= 128 THEN RdErr(MalformedVarint)
                  ELSE LET top == low % 16
                       IN  IF top >= 8
                           THEN RdOk(((acc + (top - 8) * Pow2(28)) - Pow2(30)) - Pow2(30), Drop(data, k))
                           ELSE RdOk(acc + top * Pow2(28), Drop(data, k))
             ELSE LET acc2 == acc + low * Pow2(7 * (k - 1))
                  IN  IF b >= 128 THEN varint_from(data, k + 1, acc2)
                      ELSE RdOk(acc2, Drop(data, k))

read_varint(data) == varint_from(data, 1, 0)

read_data_fixed(data, n) ==
    IF n < 0 \/ n > Len(data) THEN RdErr(UnexpectedEof)
    ELSE RdOk(Take(data, n), Drop(data, n))

\* a string is its UTF-8 bytes
read_string(data) ==
    LET l == read_varint(data)
    IN  IF ~l.ok THEN l ELSE read_data_fixed(l.rest, l.val)

read_u8(data) ==
    IF Len(data) < 1 THEN RdErr(UnexpectedEof) ELSE RdOk(data[1], Drop(data, 1))

read_u16(data) ==
    IF Len(data) < 2 THEN RdErr(UnexpectedEof)
    ELSE RdOk(data[1] * 256 + data[2], Drop(data, 2))

\* an i64 is kept as its 8 big-endian bytes
read_i64(data) ==
    IF Len(data) < 8 THEN RdErr(UnexpectedEof) ELSE RdOk(Take(data, 8), Drop(data, 8))

----------------------------------------------------------------------------
(* Packet::read *)

InexistentPacketId == "Inexistent packet ID"
ExpectedHandshake == "You were supposed to send the handshake packet."

read_KeepAlive(data) ==
    LET id == read_varint(data)
    IN  IF ~id.ok THEN Err(id.err) ELSE Ok([type |-> "KeepAlive", id |-> id.val])

read_LoginStart(data) ==
    LET nickname == read_string(data)
    IN  IF ~nickname.ok THEN Err(nickname.err)
        ELSE Ok([type |-> "LoginStart", nickname |-> nickname.val])

read_EncryptionResponse(data) ==
    LET shared_secret_length == read_varint(data)
    IN  IF ~shared_secret_length.ok THEN Err(shared_secret_length.err) ELSE
        LET shared_secret == read_data_fixed(shared_secret_length.rest, shared_secret_length.val)
        IN  IF ~shared_secret.ok THEN Err(shared_secret.err) ELSE
            LET verify_token_length == read_varint(shared_secret.rest)
            IN  IF ~verify_token_length.ok THEN Err(verify_token_length.err) ELSE
                LET verify_token == read_data_fixed(verify_token_length.rest, verify_token_length.val)
                IN  IF ~verify_token.ok THEN Err(verify_token.err)
                    ELSE Ok([type |-> "EncryptionResponse",
                             shared_secret_length |-> shared_secret_length.val,
                             shared_secret |-> shared_secret.val,
                             verify_token_length |-> verify_token_length.val,
                             verify_token |-> verify_token.val])

read_Handshake(data) ==
    LET protocol_version == read_varint(data)
    IN  IF ~protocol_version.ok THEN Err(protocol_version.err) ELSE
        LET server_address == read_string(protocol_version.rest)
        IN  IF ~server_address.ok THEN Err(server_address.err) ELSE
            LET server_port == read_u16(server_address.rest)
            IN  IF ~server_port.ok THEN Err(server_port.err) ELSE
                LET next_state == read_u8(server_port.rest)
                IN  IF ~next_state.ok THEN Err(next_state.err)
                    ELSE Ok([type |-> "Handshake",
                             protocol_version |-> protocol_version.val,
                             server_address |-> server_address.val,
                             server_port |-> server_port.val,
                             next_state |-> next_state.val])

read_Ping(data) ==
    LET ping == read_i64(data)
    IN  IF ~ping.ok THEN Err(ping.err) ELSE Ok([type |-> "Ping", ping |-> ping.val])

\* Packet::read that accepts a Handshake in Status and Login too
Packet_read_handshake_anywhere(id, data, state) ==
    CASE state = Play ->
            IF id = 0 THEN read_KeepAlive(data) ELSE Err(InexistentPacketId)
      [] state = Login ->
            IF id = 0
            THEN IF read_Handshake(data).ok THEN read_Handshake(data) ELSE read_LoginStart(data)
            ELSE IF id = 1 THEN read_EncryptionResponse(data)
            ELSE Err(InexistentPacketId)
      [] state = Handshaking ->
            IF id = 0 THEN read_Handshake(data) ELSE Err(ExpectedHandshake)
      [] state = Status ->
            IF id = 0
            THEN IF read_Handshake(data).ok THEN read_Handshake(data)
                 ELSE Ok([type |-> "StatusRequest"])
            ELSE IF id = 1 THEN read_Ping(data)
            ELSE Err(InexistentPacketId)

\* Packet::read that dispatches on the id alone where the ids are shared:
\* id 0x01 is a Ping when its payload is one, in Login as in Status
Packet_read_id_first(id, data, state) ==
    CASE state = Play ->
            IF id = 0 THEN read_KeepAlive(data) ELSE Err(InexistentPacketId)
      [] state = Login ->
            IF id = 0 THEN read_LoginStart(data)
            ELSE IF id = 1
            THEN IF Len(data) = 8 THEN read_Ping(data) ELSE read_EncryptionResponse(data)
            ELSE Err(InexistentPacketId)
      [] state = Handshaking ->
            IF id = 0 THEN read_Handshake(data) ELSE Err(ExpectedHandshake)
      [] state = Status ->
            IF id = 0 THEN Ok([type |-> "StatusRequest"])
            ELSE IF id = 1 THEN read_Ping(data)
            ELSE Err(InexistentPacketId)

\* Packet::read whose LoginStart takes a missing nickname for the empty one
Packet_read_default_nickname(id, data, state) ==
    CASE state = Play ->
            IF id = 0 THEN read_KeepAlive(data) ELSE Err(InexistentPacketId)
      [] state = Login ->
            IF id = 0
            THEN IF read_LoginStart(data).ok THEN read_LoginStart(data)
                 ELSE Ok([type |-> "LoginStart", nickname |-> <<>>])
            ELSE IF id = 1 THEN read_EncryptionResponse(data)
            ELSE Err(InexistentPacketId)
      [] state = Handshaking ->
            IF id = 0 THEN read_Handshake(data) ELSE Err(ExpectedHandshake)
      [] state = Status ->
            IF id = 0 THEN Ok([type |-> "StatusRequest"])
            ELSE IF id = 1 THEN read_Ping(data)
            ELSE Err(InexistentPacketId)

Packet_read(id, data, state) ==
    CASE state = Play ->
            IF id = 0 THEN read_KeepAlive(data) ELSE Err(InexistentPacketId)
      [] state = Login ->
            IF id = 0 THEN read_LoginStart(data)
            ELSE IF id = 1 THEN read_EncryptionResponse(data)
            ELSE Err(InexistentPacketId)
      [] state = Handshaking ->
            IF id = 0 THEN read_Handshake(data) ELSE Err(ExpectedHandshake)
      [] state = Status ->
            IF id = 0 THEN Ok([type |-> "StatusRequest"])
            ELSE IF id = 1 THEN read_Ping(data)
            ELSE Err(InexistentPacketId)

----------------------------------------------------------------------------
(* DataWriter: the primitive writers, used to frame the client's packets  *)

RECURSIVE write_varint(_)
write_varint(v) ==
    IF v < 128 THEN <<v>> ELSE <<128 + (v % 128)>> \o write_varint(v \div 128)

write_data(bytes) == bytes

write_string(bytes) == write_varint(Len(bytes)) \o bytes

write_u16(v) == <<v \div 256, v % 256>>

write_u8(v) == <<v>>

----------------------------------------------------------------------------
(* RSA (openssl) and the stream cipher (cfb8/aes), as far as handle sees   *)
(* them.  A ciphertext that the private key decrypts to a well-formed      *)
(* PKCS#1 v1.5 block is the block-type byte 2 followed by the plaintext;   *)
(* private_decrypt fails on every other byte string.                       *)

PkcsBlockType == 2

rsa_public_encrypt(plain) == <<PkcsBlockType>> \o plain

rsa_private_decrypt(from) ==
    IF Len(from) >= 1 /\ from[1] = PkcsBlockType THEN Ok(Tail(from)) ELSE Err("decrypt")

\* Aes128: key and iv of Cfb8::new_var must both be 16 bytes long
AesKeyLen == 16

Cfb8_new_var(key, iv) ==
    IF Len(key) # AesKeyLen \/ Len(iv) # AesKeyLen THEN Err("InvalidLength")
    ELSE Ok([key |-> key, register |-> iv])

\* PUBLIC_KEY: the DER bytes of the process-wide public key
PUBLIC_KEY == <<48, 129, 159>>

\* the first 4 bytes of the zero-initialised 128-byte buffer after
\* private_decrypt has written `plain` at its start
buffer_0_4(plain) == Take(plain \o <<0, 0, 0, 0>>, 4)

----------------------------------------------------------------------------
(* handle: one iteration of `for raw in packets`                           *)

DcUnknownNextState == "unknown handshake next state"
DcInvalidVerifyToken == "invalid verify token"
DcWrongVerifyToken == "wrong verify token"
DcInvalidSharedSecret == "invalid shared secret"
DcUnknownLoginPacket == "unknown login packet"

StatusJson ==
    [version |-> [name |-> "1.8.9", protocol |-> 47],
     players |-> [max |-> 10, online |-> 0],
     description |-> "Amethyst Minecraft Server"]

LoginSuccessNickname == "britney bitch"
UuidDefault == "00000000-0000-0000-0000-000000000000"

client_write(c, packet) == [c EXCEPT !.written = Append(@, packet)]

\* the effect of one match arm: the client afterwards, whether the arm
\* panicked, the "TODO DC" branches it reached, and what the two checks of
\* an EncryptionResponse found.  No arm calls the session server (the call
\* exists only in the commented-out handler), so no arm verifies the session.
Effect(c, panic, dc, token_ok, secret_ok) ==
    [client |-> c, panic |-> panic, dc |-> dc, token_ok |-> token_ok, secret_ok |-> secret_ok,
     session_verified |-> FALSE]

\* handle_Handshake with the two next_state arms exchanged
handle_Handshake_swapped(packet, c) ==
    CASE packet.next_state = 1 ->
            Effect([c EXCEPT !.state = Login], FALSE, {}, FALSE, FALSE)
      [] packet.next_state = 2 ->
            Effect([c EXCEPT !.state = Status], FALSE, {}, FALSE, FALSE)
      [] OTHER ->
            Effect(c, FALSE, {DcUnknownNextState}, FALSE, FALSE)

handle_Handshake(packet, c) ==
    CASE packet.next_state = 1 ->
            Effect([c EXCEPT !.state = Status], FALSE, {}, FALSE, FALSE)
      [] packet.next_state = 2 ->
            Effect([c EXCEPT !.state = Login], FALSE, {}, FALSE, FALSE)
      [] OTHER ->
            Effect(c, FALSE, {DcUnknownNextState}, FALSE, FALSE)

handle_StatusRequest(c) ==
    Effect(client_write(c, [type |-> "StatusResponse", json |-> StatusJson]),
           FALSE, {}, FALSE, FALSE)

\* handle_Ping that answers with a zero payload
handle_Ping_zero(packet, c) ==
    Effect(client_write(c, [type |-> "Pong", pong |-> <<0, 0, 0, 0, 0, 0, 0, 0>>]),
           FALSE, {}, FALSE, FALSE)

handle_Ping(packet, c) ==
    Effect(client_write(c, [type |-> "Pong", pong |-> packet.ping]), FALSE, {}, FALSE, FALSE)

\* handle_LoginStart whose EncryptionRequest carries a token of its own
\* instead of the one stored on the session
handle_LoginStart_other_token(packet, c, rnd) ==
    LET c1 == [c EXCEPT !.verify_token = Some(rnd)]
        c2 == client_write(c1, [type |-> "EncryptionRequest",
                                server |-> <<>>,
                                public_key |-> PUBLIC_KEY,
                                verify_token |-> <<0, 0, 0, 0>>])
        c3 == [c2 EXCEPT !.identifier = packet.nickname]
    IN  Effect([c3 EXCEPT !.nickname = Some(packet.nickname)], FALSE, {}, FALSE, FALSE)

handle_LoginStart(packet, c, rnd) ==
    LET c1 == [c EXCEPT !.verify_token = Some(rnd)]
        c2 == client_write(c1, [type |-> "EncryptionRequest",
                                server |-> <<>>,
                                public_key |-> PUBLIC_KEY,
                                verify_token |-> unwrap(c1.verify_token)])
        c3 == [c2 EXCEPT !.identifier = packet.nickname]
    IN  Effect([c3 EXCEPT !.nickname = Some(packet.nickname)], FALSE, {}, FALSE, FALSE)

handle_EncryptionResponse(packet, c) ==
    LET vt == rsa_private_decrypt(packet.verify_token)
        decrypted_verify_token == IF vt.ok THEN buffer_0_4(vt.val) ELSE <<0, 0, 0, 0>>
        dc1 == IF vt.ok THEN {} ELSE {DcInvalidVerifyToken}
    IN  IF ~is_some(c.verify_token)
        THEN \* client.verify_token.unwrap() panics
             Effect(c, TRUE, dc1, FALSE, FALSE)
        ELSE
        LET equal == decrypted_verify_token = unwrap(c.verify_token)
            dc2 == IF equal THEN dc1 ELSE dc1 \cup {DcWrongVerifyToken}
            token_ok == vt.ok /\ equal
            ss == rsa_private_decrypt(packet.shared_secret)
        IN  IF ~ss.ok
            THEN \* continue
                 Effect(c, FALSE, dc2 \cup {DcInvalidSharedSecret}, token_ok, FALSE)
            ELSE
            LET shared_secret == ss.val
                cipher == Cfb8_new_var(shared_secret, shared_secret)
            IN  IF ~cipher.ok
                THEN \* Cfb8::new_var(..).unwrap() panics
                     Effect(c, TRUE, dc2, token_ok, TRUE)
                ELSE
                LET c1 == [c EXCEPT !.encode = Some(cipher.val), !.decode = Some(cipher.val)]
                IN  Effect(client_write(c1, [type |-> "LoginSuccess",
                                             uuid |-> UuidDefault,
                                             nickname |-> LoginSuccessNickname]),
                           FALSE, dc2, token_ok, TRUE)

handle_packet(packet, c, rnd) ==
    CASE packet.type = "Handshake" -> handle_Handshake(packet, c)
      [] packet.type = "StatusRequest" -> handle_StatusRequest(c)
      [] packet.type = "Ping" -> handle_Ping(packet, c)
      [] packet.type = "LoginStart" -> handle_LoginStart(packet, c, rnd)
      [] packet.type = "EncryptionResponse" -> handle_EncryptionResponse(packet, c)
      [] OTHER -> Effect(c, FALSE, {DcUnknownLoginPacket}, FALSE, FALSE)

----------------------------------------------------------------------------
(* The packets a client sends *)

Token1 == <<1, 2, 3, 4>>
Token2 == <<1, 2, 3, 5>>
\* what thread_rng().gen::<[u8; 4]>() can return
Tokens == {Token1, Token2}

Secret16 == <<9, 8, 7, 6, 5, 4, 3, 2, 1, 0, 1, 2, 3, 4, 5, 6>>
Secret16b == <<6, 5, 4, 3, 2, 1, 0, 1, 2, 3, 4, 5, 6, 7, 8, 9>>
Secret3 == <<9, 8, 7>>
Garbage == <<7, 7>>

Nick == <<97, 98>>

RawHandshake(next_state) ==
    [id |-> 0,
     data |-> write_varint(47) \o write_string(<<104>>) \o write_u16(25565) \o write_u8(next_state)]

RawStatusRequest == [id |-> 0, data |-> <<>>]

RawPing == [id |-> 1, data |-> <<0, 0, 0, 0, 0, 0, 1, 255>>]

RawLoginStart == [id |-> 0, data |-> write_string(Nick)]

RawEncryptionResponse(shared_secret, verify_token) ==
    [id |-> 1,
     data |-> write_varint(Len(shared_secret)) \o write_data(shared_secret)
              \o write_varint(Len(verify_token)) \o write_data(verify_token)]

RawUnknown == [id |-> 2, data |-> <<>>]

RawPackets ==
    { RawHandshake(1), RawHandshake(2), RawHandshake(3),
      RawStatusRequest, RawPing, RawLoginStart, RawUnknown,
      RawEncryptionResponse(rsa_public_encrypt(Secret16), rsa_public_encrypt(Token1)),
      RawEncryptionResponse(rsa_public_encrypt(Secret16b), rsa_public_encrypt(Token2)),
      RawEncryptionResponse(rsa_public_encrypt(Secret16), Garbage),
      RawEncryptionResponse(Garbage, rsa_public_encrypt(Token1)),
      RawEncryptionResponse(rsa_public_encrypt(Secret3), rsa_public_encrypt(Token1)) }

RECURSIVE SeqsUpTo(_, _)
SeqsUpTo(S, n) ==
    IF n = 0 THEN {<<>>}
    ELSE LET shorter == SeqsUpTo(S, n - 1)
         IN  shorter \cup {Append(s, x) : s \in shorter, x \in S}

Batches == SeqsUpTo(RawPackets, MaxBatch) \ {<<>>}

----------------------------------------------------------------------------
(* The connection *)

NoIteration ==
    [raw |-> [id |-> -1, data |-> <<>>], state |-> Handshaking, read |-> Err("none"),
     panic |-> FALSE, dc |-> {}, token_ok |-> FALSE, secret_ok |-> FALSE,
     session_verified |-> FALSE]

NoRead == [id |-> -1, data |-> <<>>, state |-> Handshaking, result |-> Err("none")]

NoSerialize == [packet |-> [type |-> "none"], result |-> Err("none")]

NoDigest == [op |-> "none", digest |-> <<>>, overflow_checks |-> FALSE, panic |-> FALSE,
             overflow |-> FALSE, bytes |-> <<>>, text |-> <<>>]

PlayerLoginClient_new ==
    [state |-> Handshaking, verify_token |-> None, nickname |-> None,
     encode |-> None, decode |-> None, identifier |-> <<>>, written |-> <<>>]

Init ==
    /\ client = PlayerLoginClient_new
    /\ packets = <<>>
    /\ panicked = FALSE
    /\ handled = 0
    /\ pending_dc = {}
    /\ last = NoIteration
    /\ rd = NoRead
    /\ ser = NoSerialize
    /\ hx = NoDigest

\* handle(packets, client) is called with the next batch of the connection
handle_call ==
    /\ ~panicked
    /\ packets = <<>>
    /\ \E batch \in Batches :
          /\ handled + Len(batch) <= MaxHandled
          /\ packets' = batch
    /\ UNCHANGED <<client, panicked, handled, pending_dc, last, rd, ser, hx>>

\* handle_iter that takes the packets of a batch from its end
handle_iter_from_end ==
    /\ ~panicked
    /\ packets # <<>>
    /\ LET raw == packets[Len(packets)]
           read == Packet_read(raw.id, raw.data, client.state)
       IN  /\ handled' = handled + 1
           /\ IF ~read.ok
              THEN \* None => continue
                   /\ packets' = SubSeq(packets, 1, Len(packets) - 1)
                   /\ last' = [raw |-> raw, state |-> client.state, read |-> read,
                               panic |-> FALSE, dc |-> {}, token_ok |-> FALSE,
                               secret_ok |-> FALSE, session_verified |-> FALSE]
                   /\ UNCHANGED <<client, panicked, pending_dc>>
              ELSE \E rnd \in Tokens :
                   LET eff == handle_packet(read.val, client, rnd)
                   IN  /\ client' = eff.client
                       /\ panicked' = eff.panic
                       /\ pending_dc' = pending_dc \cup eff.dc
                       /\ packets' = IF eff.panic THEN <<>> ELSE SubSeq(packets, 1, Len(packets) - 1)
                       /\ last' = [raw |-> raw, state |-> client.state, read |-> read,
                                   panic |-> eff.panic, dc |-> eff.dc,
                                   token_ok |-> eff.token_ok, secret_ok |-> eff.secret_ok,
                                   session_verified |-> eff.session_verified]
    /\ UNCHANGED <<rd, ser, hx>>

\* one iteration of the for loop of handle
handle_iter ==
    /\ ~panicked
    /\ packets # <<>>
    /\ LET raw == Head(packets)
           read == Packet_read(raw.id, raw.data, client.state)
       IN  /\ handled' = handled + 1
           /\ IF ~read.ok
              THEN \* None => continue
                   /\ packets' = Tail(packets)
                   /\ last' = [raw |-> raw, state |-> client.state, read |-> read,
                               panic |-> FALSE, dc |-> {}, token_ok |-> FALSE,
                               secret_ok |-> FALSE, session_verified |-> FALSE]
                   /\ UNCHANGED <<client, panicked, pending_dc>>
              ELSE \E rnd \in Tokens :
                   LET eff == handle_packet(read.val, client, rnd)
                   IN  /\ client' = eff.client
                       /\ panicked' = eff.panic
                       /\ pending_dc' = pending_dc \cup eff.dc
                       /\ packets' = IF eff.panic THEN <<>> ELSE Tail(packets)
                       /\ last' = [raw |-> raw, state |-> client.state, read |-> read,
                                   panic |-> eff.panic, dc |-> eff.dc,
                                   token_ok |-> eff.token_ok, secret_ok |-> eff.secret_ok,
                                   session_verified |-> eff.session_verified]
    /\ UNCHANGED <<rd, ser, hx>>

Next == handle_call \/ handle_iter

Spec == Init /\ [][Next]_vars

----------------------------------------------------------------------------
(* Packet::read on its own, over every connection state *)

ReadIds == {0, 1, 2, 64}
ReadData == {r.data : r \in RawPackets} \cup {<<128>>, <<1>>, <<47>>}

ReadCall ==
    /\ \E id \in ReadIds, data \in ReadData, state \in ConnectionState :
          rd' = [id |-> id, data |-> data, state |-> state,
                 result |-> Packet_read(id, data, state)]
    /\ UNCHANGED <<client, packets, panicked, handled, pending_dc, last, ser, hx>>

NextRead == ReadCall

SpecRead == Init /\ [][NextRead]_vars

----------------------------------------------------------------------------
(* Packet::serialize.  The text conversions of the collaborators           *)
(* (JsonValue, ChatComponent, Uuid) produce ASCII bytes.                   *)

CantSerialize == "Can't serialize this packet"

write_i64(v) == v

\* 4 big-endian bytes of an i32
write_i32(v) ==
    LET u == IF v < 0 THEN (v + Pow2(30)) + Pow2(30) ELSE v
        top == (u \div Pow2(24)) + (IF v < 0 THEN 128 ELSE 0)
    IN  <<top, (u \div Pow2(16)) % 256, (u \div Pow2(8)) % 256, u % 256>>

write_i8(v) == <<IF v < 0 THEN v + 256 ELSE v>>

write_bool(b) == <<IF b THEN 1 ELSE 0>>

\* the low n bits of v (two's complement for v < 0), most significant first
RECURSIVE BitsOf(_, _)
BitsOf(v, n) == IF n = 0 THEN <<>> ELSE Append(BitsOf((v - (v % 2)) \div 2, n - 1), v % 2)

RECURSIVE BytesOfBits(_)
BytesOfBits(bits) ==
    IF bits = <<>> THEN <<>>
    ELSE <<bits[1] * 128 + bits[2] * 64 + bits[3] * 32 + bits[4] * 16
           + bits[5] * 8 + bits[6] * 4 + bits[7] * 2 + bits[8]>> \o BytesOfBits(Drop(bits, 8))

\* a block position packed into one 64-bit value: x 26 bits, y 12 bits, z 26 bits
write_position(location) ==
    BytesOfBits(BitsOf(location.x, 26) \o BitsOf(location.y, 12) \o BitsOf(location.z, 26))

HexDigit(d) == IF d < 10 THEN 48 + d ELSE 87 + d

RECURSIVE to_hex(_)
to_hex(bytes) ==
    IF bytes = <<>> THEN <<>>
    ELSE <<HexDigit(bytes[1] \div 16), HexDigit(bytes[1] % 16)>> \o to_hex(Tail(bytes))

\* Uuid::to_hyphenated().to_string(): 8-4-4-4-12 lowercase hex digits
Uuid_to_hyphenated(uuid) ==
    LET h == to_hex(uuid)
    IN  SubSeq(h, 1, 8) \o <<45>> \o SubSeq(h, 9, 12) \o <<45>> \o SubSeq(h, 13, 16)
        \o <<45>> \o SubSeq(h, 17, 20) \o <<45>> \o SubSeq(h, 21, 32)

\* JsonValue::to_string() of a flat object of string members
RECURSIVE json_members(_)
json_members(members) ==
    IF members = <<>> THEN <<>>
    ELSE <<34>> \o members[1][1] \o <<34, 58, 34>> \o members[1][2] \o <<34>>
         \o (IF Len(members) > 1 THEN <<44>> ELSE <<>>) \o json_members(Tail(members))

JsonValue_to_string(json) == <<123>> \o json_members(json) \o <<125>>

\* ChatComponent::to_string(): the component as JSON text
ChatComponent_to_string(chat) == JsonValue_to_string(<<<<<<116, 101, 120, 116>>, chat.text>>>>)

serialize_EncryptionRequest(p) ==
    write_u8(1) \o write_string(p.server)
    \o write_varint(p.public_key_length) \o write_data(p.public_key)
    \o write_varint(p.verify_token_length) \o write_data(p.verify_token)

serialize_DisconnectLogin(p) == write_u8(0) \o write_string(ChatComponent_to_string(p.reason))

serialize_DisconnectPlay(p) == write_u8(64) \o write_string(ChatComponent_to_string(p.reason))

serialize_StatusResponse(p) == write_u8(0) \o write_string(JsonValue_to_string(p.json))

serialize_Pong(p) == write_u8(1) \o write_i64(p.pong)

serialize_LoginSuccess(p) ==
    write_u8(2) \o write_string(Uuid_to_hyphenated(p.uuid)) \o write_string(p.nickname)

serialize_KeepAlive(p) == write_u8(0) \o write_varint(p.id)

serialize_JoinGame(p) ==
    write_u8(1) \o write_i32(p.entity_id) \o write_u8(p.gamemode) \o write_i8(p.dimension)
    \o write_u8(p.difficulty) \o write_u8(p.max_players) \o write_string(p.level_type)
    \o write_bool(p.reduced_debug_info)

serialize_SpawnPosition(p) == write_u8(5) \o write_position(p.location)

serialize_HeldItemChange(p) == write_u8(9) \o write_u8(p.slot)

serialize_option_chat(display_name) ==
    IF is_some(display_name)
    THEN write_bool(TRUE) \o write_string(ChatComponent_to_string(unwrap(display_name)))
    ELSE write_bool(FALSE)

RECURSIVE serialize_properties(_)
serialize_properties(properties) ==
    IF properties = <<>> THEN <<>>
    ELSE LET property == properties[1]
         IN  write_string(property.name) \o write_string(property.value)
             \o (IF is_some(property.signature)
                 THEN write_bool(TRUE) \o write_string(unwrap(property.signature))
                 ELSE write_bool(FALSE))
             \o serialize_properties(Tail(properties))

serialize_PlayerInfoAction(action) ==
    CASE action.type = "AddPlayer" ->
            write_string(action.name) \o write_varint(Len(action.properties))
            \o serialize_properties(action.properties)
            \o write_varint(action.gamemode) \o write_varint(action.ping)
            \o serialize_option_chat(action.display_name)
      [] action.type = "UpdateGameMode" -> write_varint(action.gamemode)
      [] action.type = "UpdateLatency" -> write_varint(action.ping)
      [] action.type = "UpdateDisplayName" -> serialize_option_chat(action.display_name)
      [] action.type = "RemovePlayer" -> <<>>

RECURSIVE serialize_players(_)
serialize_players(players) ==
    IF players = <<>> THEN <<>>
    ELSE write_data(players[1].uuid) \o serialize_PlayerInfoAction(players[1].action)
         \o serialize_players(Tail(players))

serialize_PlayerInfo(p) ==
    write_u8(56) \o write_varint(p.action_id) \o write_varint(Len(p.players))
    \o serialize_players(p.players)

\* Packet::serialize without the catch-all arm: a Ping is written like a Pong
Packet_serialize_ping_too(p) ==
    CASE p.type = "EncryptionRequest" -> Ok(serialize_EncryptionRequest(p))
      [] p.type = "DisconnectLogin" -> Ok(serialize_DisconnectLogin(p))
      [] p.type = "DisconnectPlay" -> Ok(serialize_DisconnectPlay(p))
      [] p.type = "StatusResponse" -> Ok(serialize_StatusResponse(p))
      [] p.type = "Pong" -> Ok(serialize_Pong(p))
      [] p.type = "Ping" -> Ok(write_u8(1) \o write_i64(p.ping))
      [] p.type = "LoginSuccess" -> Ok(serialize_LoginSuccess(p))
      [] p.type = "KeepAlive" -> Ok(serialize_KeepAlive(p))
      [] p.type = "JoinGame" -> Ok(serialize_JoinGame(p))
      [] p.type = "SpawnPosition" -> Ok(serialize_SpawnPosition(p))
      [] p.type = "HeldItemChange" -> Ok(serialize_HeldItemChange(p))
      [] p.type = "PlayerInfo" -> Ok(serialize_PlayerInfo(p))
      [] OTHER -> Err(CantSerialize)

Packet_serialize(p) ==
    CASE p.type = "EncryptionRequest" -> Ok(serialize_EncryptionRequest(p))
      [] p.type = "DisconnectLogin" -> Ok(serialize_DisconnectLogin(p))
      [] p.type = "DisconnectPlay" -> Ok(serialize_DisconnectPlay(p))
      [] p.type = "StatusResponse" -> Ok(serialize_StatusResponse(p))
      [] p.type = "Pong" -> Ok(serialize_Pong(p))
      [] p.type = "LoginSuccess" -> Ok(serialize_LoginSuccess(p))
      [] p.type = "KeepAlive" -> Ok(serialize_KeepAlive(p))
      [] p.type = "JoinGame" -> Ok(serialize_JoinGame(p))
      [] p.type = "SpawnPosition" -> Ok(serialize_SpawnPosition(p))
      [] p.type = "HeldItemChange" -> Ok(serialize_HeldItemChange(p))
      [] p.type = "PlayerInfo" -> Ok(serialize_PlayerInfo(p))
      [] OTHER -> Err(CantSerialize)

(* The packets handed to Packet::serialize *)

Uuid1 == <<0, 17, 34, 51, 68, 85, 102, 119, 136, 153, 170, 187, 204, 221, 238, 255>>
UuidNil == <<0, 0, 0, 0, 0, 0, 0, 0, 0, 0, 0, 0, 0, 0, 0, 0>>
Chat1 == [text |-> <<104, 105>>]
Level == <<102, 108, 97, 116>>
I64s == {RawPing.data, <<255, 255, 255, 255, 255, 255, 255, 255>>, <<0, 0, 0, 0, 0, 0, 0, 0>>}
LengthFields == {0, 3, 4, 200}

PlayerInfoActions ==
    {[type |-> "AddPlayer", name |-> Nick, properties |-> props, gamemode |-> 1, ping |-> 300,
      display_name |-> dn] :
        props \in {<<>>,
                   <<[name |-> <<116>>, value |-> <<118>>, signature |-> None]>>,
                   <<[name |-> <<116>>, value |-> <<118>>, signature |-> Some(<<115>>)],
                     [name |-> <<117>>, value |-> <<119>>, signature |-> None]>>},
        dn \in {None, Some(Chat1)}}
    \cup {[type |-> "UpdateGameMode", gamemode |-> g] : g \in {0, 1}}
    \cup {[type |-> "UpdateLatency", ping |-> l] : l \in {0, 300}}
    \cup {[type |-> "UpdateDisplayName", display_name |-> dn] : dn \in {None, Some(Chat1)}}
    \cup {[type |-> "RemovePlayer"]}

InboundPackets ==
    {[type |-> "Handshake", protocol_version |-> 47, server_address |-> <<104>>,
      server_port |-> 25565, next_state |-> n] : n \in {1, 2, 3}}
    \cup {[type |-> "StatusRequest"]}
    \cup {[type |-> "Ping", ping |-> v] : v \in I64s}
    \cup {[type |-> "LoginStart", nickname |-> n] : n \in {<<>>, Nick}}
    \cup {[type |-> "EncryptionResponse", shared_secret_length |-> Len(s), shared_secret |-> s,
           verify_token_length |-> Len(t), verify_token |-> t] :
             s \in {Garbage, rsa_public_encrypt(Secret16)},
             t \in {Garbage, rsa_public_encrypt(Token1)}}

OutboundPackets ==
    {[type |-> "EncryptionRequest", server |-> <<>>, public_key_length |-> kl,
      public_key |-> PUBLIC_KEY, verify_token_length |-> tl, verify_token |-> t] :
        kl \in LengthFields, tl \in LengthFields, t \in Tokens}
    \cup {[type |-> "DisconnectLogin", reason |-> Chat1], [type |-> "DisconnectPlay", reason |-> Chat1]}
    \cup {[type |-> "StatusResponse", json |-> j] :
             j \in {<<>>, <<<<<<110>>, <<49>>>>>>, <<<<<<110>>, <<49>>>>, <<<<109>>, <<50>>>>>>}}
    \cup {[type |-> "Pong", pong |-> v] : v \in I64s}
    \cup {[type |-> "LoginSuccess", uuid |-> u, nickname |-> n] :
             u \in {UuidNil, Uuid1}, n \in {<<>>, Nick}}
    \cup {[type |-> "KeepAlive", id |-> i] : i \in {0, 127, 128, 300}}
    \cup {[type |-> "JoinGame", entity_id |-> id, gamemode |-> g, dimension |-> d,
           difficulty |-> 1, max_players |-> 10, level_type |-> Level,
           reduced_debug_info |-> r] :
             id \in {-1, 0, 70000}, g \in {0, 1}, d \in {-1, 0, 1}, r \in BOOLEAN}
    \cup {[type |-> "SpawnPosition", location |-> [x |-> x, y |-> 64, z |-> z]] :
             x \in {-1, 0, 8}, z \in {-8, 5}}
    \cup {[type |-> "HeldItemChange", slot |-> s] : s \in {0, 8}}
    \cup {[type |-> "PlayerInfo", action_id |-> 0, players |-> ps] :
             ps \in {<<>>} \cup {<<[uuid |-> Uuid1, action |-> a]>> : a \in PlayerInfoActions}
                   \cup {<<[uuid |-> Uuid1, action |-> a], [uuid |-> UuidNil, action |-> a]>> :
                            a \in PlayerInfoActions}}

SerializeCall ==
    /\ \E p \in InboundPackets \cup OutboundPackets :
          ser' = [packet |-> p, result |-> Packet_serialize(p)]
    /\ UNCHANGED <<client, packets, panicked, handled, pending_dc, last, rd, hx>>

NextSerialize == SerializeCall

SpecSerialize == Init /\ [][NextSerialize]_vars

----------------------------------------------------------------------------
(* hex_digest and two_complement.  `bytes[i] + 1` on a u8 that is 0xff     *)
(* panics in a build with overflow checks and wraps to 0 in one without.   *)

DigestLen == 20

\* the loop of two_complement from index i (1-based) down to the first byte
RECURSIVE two_complement_from(_, _, _, _)
two_complement_from(bytes, i, carry, overflow_checks) ==
    IF i = 0 THEN [panic |-> FALSE, overflow |-> FALSE, bytes |-> bytes]
    ELSE LET complemented == 255 - bytes[i]
         IN  IF carry
             THEN IF complemented = 255
                  THEN IF overflow_checks
                       THEN [panic |-> TRUE, overflow |-> TRUE,
                             bytes |-> [bytes EXCEPT ![i] = complemented]]
                       ELSE [two_complement_from([bytes EXCEPT ![i] = 0], i - 1, TRUE,
                                                 overflow_checks)
                             EXCEPT !.overflow = TRUE]
                  ELSE two_complement_from([bytes EXCEPT ![i] = complemented + 1], i - 1, FALSE,
                                           overflow_checks)
             ELSE two_complement_from([bytes EXCEPT ![i] = complemented], i - 1, FALSE,
                                      overflow_checks)

two_complement(bytes, overflow_checks) ==
    two_complement_from(bytes, Len(bytes), TRUE, overflow_checks)

\* Regex ^0+ replaced by "": the text without its leading '0' characters
RECURSIVE strip_leading_zeros(_)
strip_leading_zeros(text) ==
    IF text # <<>> /\ text[1] = 48 THEN strip_leading_zeros(Tail(text)) ELSE text

hex_digest(digest, overflow_checks) ==
    LET negative == digest[1] >= 128
    IN  IF negative
        THEN LET tc == two_complement(digest, overflow_checks)
             IN  IF tc.panic
                 THEN [panic |-> TRUE, overflow |-> TRUE, bytes |-> tc.bytes, text |-> <<>>]
                 ELSE [panic |-> FALSE, overflow |-> tc.overflow, bytes |-> tc.bytes,
                       text |-> <<45>> \o strip_leading_zeros(to_hex(tc.bytes))]
        ELSE [panic |-> FALSE, overflow |-> FALSE, bytes |-> digest,
              text |-> strip_leading_zeros(to_hex(digest))]

(* The digests handed to hex_digest *)

Fill(b, n) == [i \in 1..n |-> b]

Digests ==
    {<<a>> \o Fill(b, DigestLen - 3) \o <<c, d>> :
        a \in {0, 1, 15, 127, 128, 255}, b \in {0, 255}, c \in {0, 255}, d \in {0, 1, 128, 255}}

hex_digest_call ==
    /\ \E digest \in Digests, overflow_checks \in BOOLEAN :
          LET r == hex_digest(digest, overflow_checks)
          IN  hx' = [op |-> "hex_digest", digest |-> digest,
                     overflow_checks |-> overflow_checks, panic |-> r.panic,
                     overflow |-> r.overflow, bytes |-> r.bytes, text |-> r.text]
    /\ UNCHANGED <<client, packets, panicked, handled, pending_dc, last, rd, ser>>

two_complement_call ==
    /\ \E digest \in Digests, overflow_checks \in BOOLEAN :
          LET r == two_complement(digest, overflow_checks)
          IN  hx' = [op |-> "two_complement", digest |-> digest,
                     overflow_checks |-> overflow_checks, panic |-> r.panic,
                     overflow |-> r.overflow, bytes |-> r.bytes, text |-> <<>>]
    /\ UNCHANGED <<client, packets, panicked, handled, pending_dc, last, rd, ser>>

NextDigest == hex_digest_call \/ two_complement_call

SpecDigest == Init /\ [][NextDigest]_vars

----------------------------------------------------------------------------
(* Vocabulary of the properties *)

HasWritten(c, type) == \E i \in 1..Len(c.written) : c.written[i].type = type

CipherSet(c) == is_some(c.encode) \/ is_some(c.decode)

\* the latest iteration decoded a packet of this type
LastWas(l, type) == l.read.ok /\ l.read.val.type = type

\* this step is an iteration of handle's loop that decoded a packet of this type
Iterated(type) == handled' # handled /\ LastWas(last', type)

----------------------------------------------------------------------------
(* C1: processing an EncryptionResponse sets the encode/decode cipher if   *)
(* and only if both the verify-token check and the shared-secret           *)
(* decryption succeed, and no cipher is set before both have passed (an    *)
(* iteration that panics is left out of the "if" direction).               *)
C1_CipherIffBothChecks ==
    [][Iterated("EncryptionResponse") =>
          /\ (last'.token_ok /\ last'.secret_ok /\ ~last'.panic) => CipherSet(client')
          /\ (~CipherSet(client) /\ CipherSet(client')) => (last'.token_ok /\ last'.secret_ok)]_vars

(* C2: an EncryptionResponse whose verify token does not decrypt, or       *)
(* decrypts to bytes other than the stored token, is rejected: processing  *)
(* does not go on to the shared-secret decryption, the cipher setup or     *)
(* LoginSuccess.                                                           *)
C2_TokenMismatchRejected ==
    [][(Iterated("EncryptionResponse") /\ ~last'.token_ok) =>
          /\ ~last'.secret_ok
          /\ client'.encode = client.encode
          /\ client'.decode = client.decode
          /\ client'.written = client.written]_vars

(* C3: an EncryptionResponse whose shared secret does not decrypt is fatal *)
(* for the connection: it activates no cipher and sends no LoginSuccess,   *)
(* and no later packet of the connection is processed (seen here as: none  *)
(* changes the session any more).                                          *)
C3_InvalidSecretFatal ==
    [][/\ (Iterated("EncryptionResponse") /\ DcInvalidSharedSecret \in last'.dc) =>
             (client'.encode = client.encode /\ client'.decode = client.decode
              /\ client'.written = client.written)
       /\ DcInvalidSharedSecret \in pending_dc => client' = client]_vars

(* C4: LoginSuccess is sent only when the session verification has         *)
(* accepted the client's identity for that handshake.                      *)
C4_LoginSuccessOnlyVerified ==
    [][(Len(client'.written) > Len(client.written)
        /\ client'.written[Len(client'.written)].type = "LoginSuccess") =>
          last'.session_verified]_vars

(* C5: a Handshake packet processed in Handshaking moves the state to      *)
(* Status when next_state = 1 and to Login when next_state = 2, and no     *)
(* other next_state changes the state.                                     *)
C5_HandshakeTransition ==
    [][(Iterated("Handshake") /\ last'.state = Handshaking) =>
          client'.state = (IF last'.read.val.next_state = 1 THEN Status
                           ELSE IF last'.read.val.next_state = 2 THEN Login
                           ELSE Handshaking)]_vars

C5_Witness ==
    /\ LastWas(last, "Handshake") /\ last.read.val.next_state = 2
    /\ last.state = Handshaking /\ client.state = Login

(* C6: a Handshake whose next_state is neither 1 nor 2 is fatal: no later  *)
(* packet of the connection is decoded or answered and the state never     *)
(* becomes Status or Login.                                                *)
C6_InvalidNextStateFatal ==
    DcUnknownNextState \in pending_dc =>
        /\ client.state = Handshaking
        /\ client.written = <<>>

(* C7: the connection state starts as Handshaking, leaves Handshaking only *)
(* through a Handshake packet, and once it is Status or Login no packet    *)
(* changes it; a failed login handshake leaves it unchanged.               *)
C7_StateNeverReverts ==
    /\ client.state = Handshaking
    /\ [][/\ client.state # Handshaking => client'.state = client.state
          /\ client'.state # client.state =>
                /\ Iterated("Handshake")
                /\ last'.read.val.next_state \in {1, 2}
                /\ client'.state \in {Status, Login}]_vars

C7_Witness ==
    /\ client.state = Login
    /\ LastWas(last, "EncryptionResponse")
    /\ last.state = Login
    /\ ~last.secret_ok
    /\ \E i \in 1..Len(packets) : packets[i] = RawHandshake(1)

(* C8: once the EncryptionResponse that completes the login handshake has  *)
(* been processed (LoginSuccess has been sent), the session state is Play. *)
C8_PlayAfterLoginSuccess ==
    HasWritten(client, "LoginSuccess") => client.state = Play

(* C9: Packet::read dispatches on the state first and then on the id:      *)
(* Handshake only in Handshaking (0x00), StatusRequest and Ping only in    *)
(* Status (0x00, 0x01), LoginStart and EncryptionResponse only in Login    *)
(* (0x00, 0x01); an id with no entry for the state yields the unknown-id   *)
(* error and no packet.                                                    *)
PacketTable ==
    { <<Handshaking, 0, "Handshake">>,
      <<Status, 0, "StatusRequest">>, <<Status, 1, "Ping">>,
      <<Login, 0, "LoginStart">>, <<Login, 1, "EncryptionResponse">>,
      <<Play, 0, "KeepAlive">> }

C9_ReadDispatch ==
    rd.id # -1 =>
        /\ rd.result.ok => <<rd.state, rd.id, rd.result.val.type>> \in PacketTable
        /\ (\A e \in PacketTable : <<e[1], e[2]>> # <<rd.state, rd.id>>) =>
              (~rd.result.ok /\ rd.result.err \in {InexistentPacketId, ExpectedHandshake})

C9_Witness ==
    /\ rd.state = Login /\ rd.id = 1 /\ rd.data = RawPing.data
    /\ rd.result.ok /\ rd.result.val.type = "EncryptionResponse"

(* C10 as claimed: a StatusRequest (id 0x00, empty payload) in Login does  *)
(* not decode as LoginStart and fails with the unknown-id error.           *)
C10_StatusRequestInLoginUnknownId ==
    (rd.state = Login /\ rd.id = RawStatusRequest.id /\ rd.data = RawStatusRequest.data) =>
        (~rd.result.ok /\ rd.result.err = InexistentPacketId)

(* C10 amended: a StatusRequest (id 0x00, empty payload) in Login does not *)
(* decode as LoginStart; id 0x00 is LoginStart's id in Login, so decoding  *)
(* fails with the reader's error for the missing nickname, not with the    *)
(* unknown-id error.                                                       *)
C10_StatusRequestInLoginFails ==
    (rd.state = Login /\ rd.id = RawStatusRequest.id /\ rd.data = RawStatusRequest.data) =>
        (~rd.result.ok /\ rd.result.err \in {MalformedVarint, UnexpectedEof})

C10_Witness ==
    /\ rd.state = Login /\ rd.id = RawStatusRequest.id /\ rd.data = RawStatusRequest.data
    /\ ~rd.result.ok


(* C11: processing a LoginStart stores a generated 4-byte verify token and *)
(* the claimed nickname on the session and writes exactly one              *)
(* EncryptionRequest: empty server id, the process-wide public key, and    *)
(* the verify token now stored on the session.                             *)
C11_LoginStartEncryptionRequest ==
    [][Iterated("LoginStart") =>
          /\ is_some(client'.verify_token)
          /\ unwrap(client'.verify_token) \in Tokens
          /\ Len(unwrap(client'.verify_token)) = 4
          /\ client'.nickname = Some(last'.read.val.nickname)
          /\ client'.written =
                Append(client.written,
                       [type |-> "EncryptionRequest", server |-> <<>>,
                        public_key |-> PUBLIC_KEY,
                        verify_token |-> unwrap(client'.verify_token)])]_vars

C11_Witness ==
    /\ LastWas(last, "LoginStart")
    /\ client.nickname = Some(Nick)
    /\ client.verify_token = Some(Token2)
    /\ client.written[Len(client.written)].type = "EncryptionRequest"

(* C12: within a batch the packets are processed in arrival order, each    *)
(* decoded under the connection state left by the packets before it (in    *)
(* [Handshake{next_state=1}, id 0x00] the second packet is decoded in      *)
(* Status), and the replies are written in the order of their packets.     *)
C12_BatchInOrder ==
    [][handled' # handled =>
          /\ last'.raw = Head(packets)
          /\ packets' = (IF panicked' THEN <<>> ELSE Tail(packets))
          /\ last'.state = client.state
          /\ last'.read = Packet_read(Head(packets).id, Head(packets).data, client.state)
          /\ Len(client'.written) \in {Len(client.written), Len(client.written) + 1}
          /\ SubSeq(client'.written, 1, Len(client.written)) = client.written
          /\ (client.state = Status /\ Head(packets) = RawStatusRequest) =>
                client'.written[Len(client'.written)].type = "StatusResponse"]_vars

C12_Witness ==
    /\ handled = 2
    /\ last.raw = RawStatusRequest
    /\ last.state = Status
    /\ LastWas(last, "StatusRequest")
    /\ Len(client.written) = 1
    /\ packets = <<>>

(* C13: the handshake is attempted at most once per connection: once an    *)
(* EncryptionResponse has been processed, no later packet causes another   *)
(* EncryptionRequest, stores a new verify token, or activates or replaces  *)
(* the ciphers (stated here for the packet that follows it).               *)
C13_HandshakeOnce ==
    [][(LastWas(last, "EncryptionResponse") /\ handled' # handled) =>
          /\ client'.verify_token = client.verify_token
          /\ client'.encode = client.encode
          /\ client'.decode = client.decode
          /\ (Len(client'.written) > Len(client.written) =>
                client'.written[Len(client'.written)].type # "EncryptionRequest")]_vars

(* C14: in Status a StatusRequest produces exactly one StatusResponse and  *)
(* a Ping{v} exactly one Pong carrying v, and neither changes the state or *)
(* a handshake field of the session.                                       *)
C14_StatusReplies ==
    [][/\ Iterated("StatusRequest") =>
             /\ last'.state = Status
             /\ client' = [client EXCEPT !.written =
                              Append(@, [type |-> "StatusResponse", json |-> StatusJson])]
       /\ Iterated("Ping") =>
             /\ last'.state = Status
             /\ client' = [client EXCEPT !.written =
                              Append(@, [type |-> "Pong", pong |-> last'.read.val.ping])]]_vars

C14_Witness ==
    /\ LastWas(last, "Ping")
    /\ client.state = Status
    /\ client.written[Len(client.written)] = [type |-> "Pong", pong |-> RawPing.data]

(* C15: a packet whose id is not legal in the current state is a hard stop *)
(* for the connection: decoding fails with the unknown-id error and no     *)
(* later packet of the same batch is answered or changes the session.      *)
C15_UnknownIdHardStop ==
    [][(handled > 0 /\ ~last.read.ok
        /\ last.read.err \in {InexistentPacketId, ExpectedHandshake}
        /\ packets # <<>>) =>
          client' = client]_vars

(* C19: the verify token goes absent -> set -> absent: it is set at most   *)
(* once per connection and is absent again once an EncryptionResponse has  *)
(* been processed.                                                         *)
C19_VerifyTokenLifecycle ==
    [][/\ is_some(client.verify_token) =>
             client'.verify_token \in {client.verify_token, None}
       /\ (Iterated("EncryptionResponse") /\ ~last'.panic) =>
             client'.verify_token = None]_vars

(* C20: between two packets the encode cipher is set if and only if the    *)
(* decode cipher is, both come from the same decrypted shared secret used  *)
(* as key and as IV, and once set neither is replaced or cleared.          *)
C20_CiphersSetOnceTogether ==
    [][/\ is_some(client'.encode) <=> is_some(client'.decode)
       /\ is_some(client'.encode) =>
             /\ unwrap(client'.encode).key = unwrap(client'.decode).key
             /\ unwrap(client'.encode).register = unwrap(client'.encode).key
             /\ unwrap(client'.decode).register = unwrap(client'.decode).key
       /\ is_some(client.encode) =>
             (client'.encode = client.encode /\ client'.decode = client.decode)]_vars

(* C16: Packet::serialize fails with the not-encodable error and yields no *)
(* bytes for every inbound-only variant, and succeeds for every            *)
(* server-to-client variant with the id of the wire table as first byte.   *)
InboundOnly == {"Handshake", "StatusRequest", "Ping", "LoginStart", "EncryptionResponse"}

WireId ==
    [t \in {"StatusResponse", "Pong", "EncryptionRequest", "LoginSuccess", "DisconnectLogin",
            "KeepAlive", "JoinGame", "SpawnPosition", "HeldItemChange", "PlayerInfo",
            "DisconnectPlay"} |->
        CASE t = "StatusResponse" -> 0 [] t = "Pong" -> 1 [] t = "EncryptionRequest" -> 1
          [] t = "LoginSuccess" -> 2 [] t = "DisconnectLogin" -> 0 [] t = "KeepAlive" -> 0
          [] t = "JoinGame" -> 1 [] t = "SpawnPosition" -> 5 [] t = "HeldItemChange" -> 9
          [] t = "PlayerInfo" -> 56 [] t = "DisconnectPlay" -> 64]

C16_SerializeOutboundOnly ==
    ser.packet.type # "none" =>
        /\ ser.packet.type \in InboundOnly =>
              ser.result = [ok |-> FALSE, err |-> CantSerialize]
        /\ ser.packet.type \notin InboundOnly =>
              /\ ser.packet.type \in DOMAIN WireId
              /\ ser.result.ok
              /\ Len(ser.result.val) >= 1
              /\ ser.result.val[1] = WireId[ser.packet.type]

C16_Witness ==
    /\ ser.packet.type = "DisconnectPlay"
    /\ ser.result.ok
    /\ ser.result.val[1] = 64

(* C17: hex_digest formats a digest as a signed hexadecimal string: it     *)
(* starts with '-' exactly when the top bit of byte 0 is set, its digits   *)
(* have no leading zero digit, and it is never empty: an all-zero digest   *)
(* formats as "0" (calls that panic are left out).                         *)
HexDigits(text) == IF text # <<>> /\ text[1] = 45 THEN Tail(text) ELSE text

C17_HexDigestSigned ==
    (hx.op = "hex_digest" /\ ~hx.panic) =>
        /\ hx.text # <<>>
        /\ (hx.text[1] = 45) <=> (hx.digest[1] >= 128)
        /\ HexDigits(hx.text) # <<>>
        /\ (HexDigits(hx.text) = <<48>> \/ HexDigits(hx.text)[1] # 48)
        /\ (hx.digest = Fill(0, DigestLen) => hx.text = <<48>>)

(* C18: two_complement replaces the bytes by the big-endian two's          *)
(* complement negation of their value, and every byte operation stays      *)
(* inside 0..255, also when the carry reaches a byte that was 0x00.        *)
RECURSIVE NegateFrom(_, _, _)
NegateFrom(bytes, i, carry) ==
    IF i = 0 THEN bytes
    ELSE LET sum == (255 - bytes[i]) + carry
         IN  NegateFrom([bytes EXCEPT ![i] = sum % 256], i - 1, sum \div 256)

C18_TwoComplementInRange ==
    hx.op = "two_complement" =>
        /\ ~hx.overflow
        /\ ~hx.panic
        /\ hx.bytes = NegateFrom(hx.digest, Len(hx.digest), 1)

(* C21: the length prefix that Packet::serialize emits for public_key and  *)
(* for verify_token of an EncryptionRequest is the number of data bytes    *)
(* that follow it, whatever the packet's stored length fields hold.        *)
C21_LengthPrefixFromData ==
    ser.packet.type = "EncryptionRequest" =>
        /\ ser.result.ok
        /\ ser.result.val =
              write_u8(1) \o write_string(ser.packet.server)
              \o write_varint(Len(ser.packet.public_key)) \o write_data(ser.packet.public_key)
              \o write_varint(Len(ser.packet.verify_token)) \o write_data(ser.packet.verify_token)


(* C22: an EncryptionResponse that handle decodes while no verify token is *)
(* stored (no LoginStart came before it) is rejected without a crash: the  *)
(* handler does not panic, no cipher is activated and LoginSuccess is not  *)
(* sent.                                                                   *)
C22_NoTokenNoCrash ==
    (LastWas(last, "EncryptionResponse") /\ ~is_some(client.verify_token)) =>
        /\ ~last.panic
        /\ ~panicked
        /\ ~CipherSet(client)
        /\ ~HasWritten(client, "LoginSuccess")

====
